---------------------------- MODULE Spec2Model ----------------------------
(***************************************************************************)
(* smart_surface: ultrasonic range sensing on a Raspberry Pi.              *)
(*                                                                         *)
(*   app.py        Flask service: request threads share hw_lock and the    *)
(*                 gpiozero distance sensor          (specification Spec)  *)
(*   menu.py / autorun.py / diagnostic.py                                  *)
(*                 the trigger/echo polling routines (SpecMeasure)         *)
(*   menu.py       chip claim, button-started tests, cleanup (SpecMenu)    *)
(*                                                                         *)
(* Distances handed out by the routines are integers in units of 0.01 cm   *)
(* (the code rounds to two decimals); raw driver values are in 0.001 cm.   *)
(***************************************************************************)
EXTENDS Integers, Sequences, FiniteSets, TLC

(***************************************************************************)
(* Bounds of the model.                                                    *)
(***************************************************************************)
\* number of concurrent request threads of the Flask service
NCallers == 2
\* how often the physical scene in front of the sensor changes during a run
MaxSceneChanges == 1
\* samples per batch: SHAPE_READINGS is 15 and MATERIAL_READINGS is 20 in
\* app.py (lines 50-51); the handlers are modelled with these smaller loop
\* bounds
SHAPE_READINGS == 2
MATERIAL_READINGS == 3

\* the polling routines: one tick of the clock is 10 ms, the time one
\* iteration of a polling loop is taken to last. The echo rises at a tick up
\* to MaxRise or never, stays high up to MaxWidth ticks or for ever, and a
\* loop without deadline is followed up to tick MaxTime.
MaxRise == 7
MaxWidth == 4
MaxTime == 14

\* samples per test of menu.py: READINGS_COUNT is 15 in menu.py (line 38);
\* the tests are modelled with this smaller loop bound
READINGS_COUNT == 2

\* autorun.py: samples per test (5 for the distance test, line 94, and 15
\* for the others, lines 105 and 118, in the source), and the number of
\* live_menu threads that exist at one time
AUTO_DISTANCE_READINGS == 2
AUTO_READINGS == 2
MaxMenuThreads == 2

\* the speed of sound: how far the clock is followed, in seconds
MaxClock == 6

(***************************************************************************)
(* Program constants, app.py.                                              *)
(***************************************************************************)
DISTANCE_RETRIES == 4
\* init_hardware(retries=2), line 72
INIT_RETRIES == 2
\* Python's None, as returned for "no reading"
NoneVal == -1
\* plausibility window of read_distance_once, in 0.001 cm
MIN_VALID_MILLI == 500
MAX_VALID_MILLI == 400000

\* thresholds of the classifiers of app.py (lines 281-297): standard
\* deviations in 0.001 cm, the missing fraction in thousandths
SHAPE_FLAT_MILLI == 300
SHAPE_CURVED_MILLI == 1000
MATERIAL_MODERATE_MILLI == 1000
MATERIAL_ABSORB_MILLI == 1500
MISSING_LIMIT == 400

\* the batch sizes of the source, for the reductions taken on their own:
\* app.py lines 50-51, menu.py line 38, autorun.py lines 105 and 118
SHAPE_BATCH == 15
MATERIAL_BATCH == 20
MENU_BATCH == 15
AUTO_BATCH == 15

\* thresholds of menu.py (lines 236-245), in 0.001 cm
MENU_FLAT_MILLI == 1000
MENU_CURVED_MILLI == 3000
MENU_ABSORB_MILLI == 3000

\* menu.py line 166, timeout_s = 0.05, and autorun.py line 75, 0.04: in ticks
TIMEOUT_MENU == 5
TIMEOUT_AUTO == 4
\* a local variable that no assignment has reached yet
Unset == -3

\* menu.py lines 33-36: the GPIO lines
TRIG == 23
ECHO == 24
BUZZER == 18
BUTTON == 17

VARIABLES
    \* ---- app.py ----
    hw_lock,          \* holder of hw_lock, or NoHolder
    distance_sensor,  \* "open" or "None": the module-level sensor object
    sensorClaims,     \* live sensor objects holding the trigger/echo pins
    buzzer,           \* "open", "closed" or "None": the module-level Buzzer
    proc,             \* "running", "closing" (in cleanup_all), "exited"
    scene,            \* what distance_sensor.distance yields right now
    sceneChanges,     \* number of scene changes so far
    pc,               \* per caller: position in its request handler
    req,              \* per caller: the route being served
    attempt,          \* per caller: iterations made by the loop of line 256
    d,                \* per caller: value returned by read_distance_once
    readings,         \* per caller: the readings list of the batch
    missing,          \* per caller: the missing counter of the batch
    i,                \* per caller: loop variable of the batch loop
    nreads,           \* per caller: read_distance_once calls of this request
    resp,             \* per caller: the JSON body being returned
    beeps,            \* history, per caller: pulses its beep() calls asked for
    \* ---- one measurement of menu.py, autorun.py or diagnostic.py ----
    routine,          \* "menu", "autorun" or "diagnostic": whose routine runs
    mpc,              \* "trigger", "rise", "fall", "convert", "done"
    now,              \* time.time(), in ticks
    riseAt,           \* tick at which the echo line goes high
    fallAt,           \* tick at which the echo line goes low again
    ambient,          \* ambient temperature, in degrees Celsius
    start,            \* start / pulse_start / start_time
    stop,             \* end / pulse_end / stop_time
    timeout,          \* the deadline variable `timeout`
    result,           \* the distance returned, in 0.01 cm, or NoneVal
    raised,           \* the routine ended by raising an exception
    t0,               \* history: tick at which polling began
    tFall,            \* history: tick at which the second loop was entered
    timedOut,         \* history: a loop was left because its deadline passed
    \* ---- menu.py ----
    mstep,            \* position of the script
    mpin,             \* index of the pin being claimed during initialisation
    h,                \* the module-level chip handle, 0 before gpiochip_open
    handle,           \* the local `handle` of safe_claim_output
    openHandles,      \* the chip handles this process holds open
    claimedOn,        \* per pin: the open handle holding its claim, or 0
    claimOk,          \* history: per pin, its claim reported success
    tries,            \* history: gpio_claim_* calls made by the current call
    reopened,         \* history: the current call closed and reopened the chip
    outcome,          \* history: how the latest safe_claim_* call ended
    callPin,          \* history: the pin of the latest safe_claim_* call
    choice,           \* the menu selection being served
    mreadings,        \* the readings list of the test
    mraw,             \* history: what measure_distance_once returned
    mres,             \* the result dictionary of the test
    exitCode,         \* exit status of the process, NoneVal while it runs
    lows,             \* history: consecutive low reads of the button so far
    mbeeps,           \* history: buzzer pulses beep() made in this test
    \* ---- autorun.py ----
    astep,            \* position of the main thread
    achoice,          \* the choice read by input()
    stop_menu,        \* the module-level flag stop_menu
    asamples,         \* samples taken by the running test
    lm,               \* per live_menu thread: its position
    achip,            \* "open" or "closed": the chip handle h
    \* ---- the reduction of one batch by one of the scripts ----
    svariant,         \* whose reduction: script and test
    sbatch,           \* the samples of the batch, NoneVal for no echo
    sres,             \* what the reduction yields
    \* ---- the speed of sound a script works with ----
    tscript,          \* "app", "menu" or "autorun"
    mlx,              \* the MLX90614: "ok", "failing" (reads raise) or "None"
    tambient,         \* the ambient temperature the sensor reads, in C
    tclock,           \* time.time(), in seconds
    sos,              \* the speed of the latest call, in 0.1 m/s
    sosPrev,          \* history: the speed of the call before
    tempKnown,        \* history: the latest call had an ambient temperature
    tempKnownPrev     \* history: the call before had one

appVars == <<hw_lock, distance_sensor, sensorClaims, buzzer, proc, scene,
             sceneChanges, pc, req, attempt, d, readings, missing, i, nreads,
             resp, beeps>>

measVars == <<routine, mpc, now, riseAt, fallAt, ambient, start, stop,
              timeout, result, raised, t0, tFall, timedOut>>

menuVars == <<mstep, mpin, h, handle, openHandles, claimedOn, claimOk, tries,
              reopened, outcome, callPin, choice, mreadings, mraw, mres,
              exitCode, lows, mbeeps>>

testLog == <<lows, mbeeps>>

autoVars == <<astep, achoice, stop_menu, asamples, lm, achip>>

statVars == <<svariant, sbatch, sres>>

tempVars == <<tscript, mlx, tambient, tclock, sos, sosPrev, tempKnown,
              tempKnownPrev>>

vars == <<appVars, measVars, menuVars, autoVars, statVars, tempVars>>

(***************************************************************************)
(* Arithmetic helpers: Python's round() on a quotient, half to even.       *)
(***************************************************************************)
RoundDiv(a, b) ==
    LET q == a \div b
        r == a % b
    IN  IF 2 * r < b THEN q
        ELSE IF 2 * r > b THEN q + 1
        ELSE IF q % 2 = 0 THEN q ELSE q + 1

\* round(d, 2) of a raw value in 0.001 cm, result in 0.01 cm
Round2(milli) == RoundDiv(milli, 10)

RECURSIVE SumSeq(_)
SumSeq(s) == IF s = <<>> THEN 0 ELSE Head(s) + SumSeq(Tail(s))

RECURSIVE SumSq(_)
SumSq(s) == IF s = <<>> THEN 0 ELSE Head(s) * Head(s) + SumSq(Tail(s))

\* the integer part of the square root of n, found by bisection between lo
\* (lo * lo <= n) and hi (n < hi * hi)
RECURSIVE SqrtBetween(_, _, _)
SqrtBetween(n, lo, hi) ==
    IF hi - lo <= 1 THEN lo
    ELSE LET mid == (lo + hi) \div 2
         IN  IF mid * mid <= n THEN SqrtBetween(n, mid, hi)
             ELSE SqrtBetween(n, lo, mid)

ISqrt(n) == SqrtBetween(n, 0, 46341)

\* n * sum(x^2) - sum(x)^2 of a sample x of n values: n^2 times its
\* population variance and n * (n - 1) times its sample variance. The
\* values are taken relative to the smallest, which changes neither.
Spread(xs) ==
    LET lowest == CHOOSE v \in {xs[k] : k \in 1..Len(xs)} :
                      \A k \in 1..Len(xs) : v <= xs[k]
        ys == [k \in 1..Len(xs) |-> xs[k] - lowest]
    IN  Len(xs) * SumSq(ys) - SumSeq(ys) * SumSeq(ys)

\* round(sqrt(num / den), 3) for a variance num / den in units of
\* (0.01 cm)^2, in 0.001 cm: the largest s with (2s - 1)^2 <= 400 num / den
RoundedRoot(num, den) ==
    LET scaled == 400 * (num \div den) + (400 * (num % den)) \div den
    IN  (ISqrt(scaled) + 1) \div 2

\* statistics.pstdev (divisor n) and statistics.stdev (divisor n - 1) of
\* readings in 0.01 cm, rounded to three decimals, in 0.001 cm
pstdev(xs) == RoundedRoot(Spread(xs), Len(xs) * Len(xs))
stdev(xs) == RoundedRoot(Spread(xs), Len(xs) * (Len(xs) - 1))

(***************************************************************************)
(* app.py                                                                  *)
(***************************************************************************)
Callers == 1..NCallers
NoHolder == 0

Routes == {"read_current", "measure_distance", "measure_shape", "measure_material"}
BatchRoutes == {"measure_shape", "measure_material"}

\* what the driver can yield for distance_sensor.distance * 100: an exception,
\* or a raw distance in 0.001 cm (0.499 cm, 10.004 cm, 10.206 cm)
DriverExc == -2
Scenes == {DriverExc, 499, 10004, 10206}

\* the loop bound of a batch route
BatchSize(route) ==
    IF route = "measure_shape" THEN SHAPE_READINGS ELSE MATERIAL_READINGS

\* a plausibility window without its two end points
ValidReading_Exclusive(milli) ==
    milli > MIN_VALID_MILLI /\ milli < MAX_VALID_MILLI

\* line 263: valid = (d >= 0.5 and d <= 400.0)
ValidReading(milli) == milli >= MIN_VALID_MILLI /\ milli <= MAX_VALID_MILLI

\* a lock that never blocks
LockFree_Always == TRUE

\* `with hw_lock:` may be entered
LockFree == hw_lock = NoHolder

NoResp == [readings |-> <<>>, valid_count |-> 0, missing_fraction |-> 0,
           average |-> NoneVal, std |-> NoneVal, label |-> "none",
           distance_val |-> NoneVal]

\* init_hardware, lines 77-88: up to `retries` constructor calls; the first
\* that succeeds ends the loop, a failed one leaves distance_sensor = None.
\* ctor[k] tells whether the pins let the k-th call succeed.
RECURSIVE InitAttempts(_, _, _)
InitAttempts(ctor, k, st) ==
    IF k > INIT_RETRIES THEN st
    ELSE IF ctor[k] /\ st.claims = 0
         THEN [sensor |-> "open", claims |-> st.claims + 1]
         ELSE InitAttempts(ctor, k + 1, [sensor |-> "None", claims |-> st.claims])

init_hardware(ctor) == InitAttempts(ctor, 1, [sensor |-> "None", claims |-> 0])

AppInit ==
    /\ hw_lock = NoHolder
    /\ \E ctor \in [1..INIT_RETRIES -> BOOLEAN] :
          /\ distance_sensor = init_hardware(ctor).sensor
          /\ sensorClaims = init_hardware(ctor).claims
    /\ buzzer \in {"open", "None"}
    /\ proc = "running"
    /\ scene \in Scenes
    /\ sceneChanges = 0
    /\ pc = [t \in Callers |-> "idle"]
    /\ req = [t \in Callers |-> "none"]
    /\ attempt = [t \in Callers |-> 0]
    /\ d = [t \in Callers |-> NoneVal]
    /\ readings = [t \in Callers |-> <<>>]
    /\ missing = [t \in Callers |-> 0]
    /\ i = [t \in Callers |-> 0]
    /\ nreads = [t \in Callers |-> 0]
    /\ resp = [t \in Callers |-> NoResp]
    /\ beeps = [t \in Callers |-> 0]

\* the process has not been ended by os._exit
Alive == proc # "exited"

\* the target in front of the sensor moves, or the driver starts or stops failing
SceneChange ==
    /\ UNCHANGED <<measVars, menuVars, autoVars, statVars, tempVars, beeps>>
    /\ Alive
    /\ sceneChanges < MaxSceneChanges
    /\ \E s \in Scenes \ {scene} : scene' = s
    /\ sceneChanges' = sceneChanges + 1
    /\ UNCHANGED <<hw_lock, distance_sensor, proc, pc, req, attempt, d,
                   readings, missing, i, nreads, resp, sensorClaims, buzzer>>

\* the raw distances at and around the ends of the plausibility window
\* (0.5 cm, 400 cm, 400.001 cm) besides those of Scenes
WideScenes == Scenes \cup {MIN_VALID_MILLI, MAX_VALID_MILLI, MAX_VALID_MILLI + 1}

\* SceneChange, to any of the wide scenes
SceneWide ==
    /\ UNCHANGED <<measVars, menuVars, autoVars, statVars, tempVars, beeps>>
    /\ Alive
    /\ sceneChanges < MaxSceneChanges
    /\ \E s \in WideScenes \ {scene} : scene' = s
    /\ sceneChanges' = sceneChanges + 1
    /\ UNCHANGED <<hw_lock, distance_sensor, proc, pc, req, attempt, d,
                   readings, missing, i, nreads, resp, sensorClaims, buzzer>>

\* Flask dispatches a request to one of the four measuring routes
Request(t) ==
    /\ UNCHANGED <<measVars, menuVars, autoVars, statVars, tempVars, beeps>>
    /\ Alive
    /\ pc[t] = "idle"
    /\ \E r \in Routes : req' = [req EXCEPT ![t] = r]
    /\ pc' = [pc EXCEPT ![t] = "acquire"]
    /\ UNCHANGED <<hw_lock, distance_sensor, proc, scene, sceneChanges,
                   attempt, d, readings, missing, i, nreads, resp,
                   sensorClaims, buzzer>>

\* lines 337 / 356 / 387: beep(1) opens the locked block of every route but
\* read_current
StartBeeps(route) == IF route = "read_current" THEN 0 ELSE 1

\* lines 340 / 373 / 403: beep(1) after a single shot, beep(2) after a batch
FinishBeeps(route) == IF route \in BatchRoutes THEN 2 ELSE 1

\* `with hw_lock:` entered; beep(1), oled_write, readings = [], missing = 0
Acquire(t) ==
    /\ UNCHANGED <<measVars, menuVars, autoVars, statVars, tempVars>>
    /\ Alive
    /\ pc[t] = "acquire"
    /\ LockFree
    /\ hw_lock' = t
    /\ beeps' = [beeps EXCEPT ![t] = StartBeeps(req[t])]
    /\ readings' = [readings EXCEPT ![t] = <<>>]
    /\ missing' = [missing EXCEPT ![t] = 0]
    /\ i' = [i EXCEPT ![t] = 0]
    /\ nreads' = [nreads EXCEPT ![t] = 0]
    /\ pc' = [pc EXCEPT ![t] = "read"]
    /\ UNCHANGED <<distance_sensor, proc, scene, sceneChanges, req, attempt,
                   d, resp, sensorClaims, buzzer>>

\* a read that builds a new sensor object whatever distance_sensor holds
NeedsReinit_Always(sensor) == TRUE

\* line 248: `if distance_sensor is None:`
NeedsReinit(sensor) == sensor = "None"

\* gpiozero reserves the pins of a device until it is closed: a constructor
\* naming pins this process still holds raises GPIOPinInUse
PinsFree == sensorClaims = 0

\* read_distance_once, lines 247-254: entry, with the re-initialisation of a
\* missing sensor, which the pins' state lets succeed or fail (another
\* process may hold them)
ReadEntry(t) ==
    /\ UNCHANGED <<measVars, menuVars, autoVars, statVars, tempVars, beeps>>
    /\ Alive
    /\ pc[t] = "read"
    /\ nreads' = [nreads EXCEPT ![t] = @ + 1]
    /\ attempt' = [attempt EXCEPT ![t] = 0]
    /\ \/ /\ ~NeedsReinit(distance_sensor)
          /\ pc' = [pc EXCEPT ![t] = "attempt"]
          /\ UNCHANGED <<distance_sensor, d, sensorClaims>>
       \/ /\ NeedsReinit(distance_sensor)
          /\ PinsFree
          /\ distance_sensor' = "open"
          /\ sensorClaims' = sensorClaims + 1
          /\ pc' = [pc EXCEPT ![t] = "attempt"]
          /\ UNCHANGED d
       \/ /\ NeedsReinit(distance_sensor)
          /\ d' = [d EXCEPT ![t] = NoneVal]
          /\ pc' = [pc EXCEPT ![t] = "store"]
          /\ UNCHANGED <<distance_sensor, sensorClaims>>
    /\ UNCHANGED <<hw_lock, proc, scene, sceneChanges, req, readings,
                   missing, i, resp, buzzer>>

\* a retry loop that runs once more than max_retries
MoreAttempts_OneMore(done) == done < DISTANCE_RETRIES + 1

\* line 256, `for attempt in range(max_retries)`: another iteration follows
\* after `done` of them
MoreAttempts(done) == done < DISTANCE_RETRIES

\* read_distance_once, lines 256-271: one iteration of the retry loop. A sensor
\* closed meanwhile by cleanup_all raises like a driver error (line 266).
Attempt(t) ==
    /\ UNCHANGED <<measVars, menuVars, autoVars, statVars, tempVars, beeps>>
    /\ Alive
    /\ pc[t] = "attempt"
    /\ attempt' = [attempt EXCEPT ![t] = @ + 1]
    /\ IF distance_sensor = "open" /\ scene # DriverExc /\ ValidReading(scene)
       THEN /\ d' = [d EXCEPT ![t] = Round2(scene)]
            /\ pc' = [pc EXCEPT ![t] = "store"]
       ELSE IF MoreAttempts(attempt[t] + 1)
            THEN UNCHANGED <<d, pc>>
            ELSE /\ d' = [d EXCEPT ![t] = NoneVal]
                 /\ pc' = [pc EXCEPT ![t] = "store"]
    /\ UNCHANGED <<hw_lock, distance_sensor, proc, scene, sceneChanges, req,
                   readings, missing, i, nreads, resp, sensorClaims, buzzer>>

\* a batch that keeps no slot for a sample without echo
AppendReading_DropNone(rs, dv) == IF dv = NoneVal THEN rs ELSE Append(rs, dv)

\* lines 362-366 / 393-397: the slot the sample takes in the readings list
AppendReading(rs, dv) == Append(rs, dv)

\* lines 364 / 395: missing += 1 for a sample that is None
CountMissing(miss, dv) == IF dv = NoneVal THEN miss + 1 ELSE miss

\* a batch loop that leaves one sample out
LoopGoesOn_StopsEarly(done, n) == done < n - 1

\* lines 360 / 391, `for i in range(SHAPE_READINGS)`: another iteration
\* follows after `done` of them
LoopGoesOn(done, n) == done < n

\* lines 360-367 / 391-398: the sample is stored and the for loop advances;
\* lines 314-315 / 338-339: a single shot reads the other sensors
Store(t) ==
    /\ UNCHANGED <<measVars, menuVars, autoVars, statVars, tempVars, beeps>>
    /\ Alive
    /\ pc[t] = "store"
    /\ IF req[t] \in BatchRoutes
       THEN /\ readings' = [readings EXCEPT ![t] = AppendReading(@, d[t])]
            /\ missing' = [missing EXCEPT ![t] = CountMissing(@, d[t])]
            /\ i' = [i EXCEPT ![t] = @ + 1]
            /\ pc' = [pc EXCEPT ![t] =
                         IF LoopGoesOn(i[t] + 1, BatchSize(req[t]))
                         THEN "read" ELSE "release"]
       ELSE /\ pc' = [pc EXCEPT ![t] = "release"]
            /\ UNCHANGED <<readings, missing, i>>
    /\ UNCHANGED <<hw_lock, distance_sensor, proc, scene, sceneChanges, req,
                   attempt, d, nreads, resp, sensorClaims, buzzer>>

\* a lock taken by acquire() and given back by a release() that the path
\* of a failed sample skips
LockAfterBlock_KeptOnFailure(t) == IF d[t] = NoneVal THEN t ELSE NoHolder

\* lines 313 / 336 / 355 / 386, `with hw_lock:`: the holder of the lock once
\* the block is left, on any way out of it
LockAfterBlock(t) == NoHolder

\* the `with hw_lock:` block is left
Release(t) ==
    /\ UNCHANGED <<measVars, menuVars, autoVars, statVars, tempVars, beeps>>
    /\ Alive
    /\ pc[t] = "release"
    /\ hw_lock' = LockAfterBlock(t)
    /\ pc' = [pc EXCEPT ![t] = "respond"]
    /\ UNCHANGED <<distance_sensor, proc, scene, sceneChanges, req, attempt,
                   d, readings, missing, i, nreads, resp, sensorClaims,
                   buzzer>>

\* line 369 / 399: valid = [x for x in readings if x is not None]
ValidOf(rs) == SelectSeq(rs, LAMBDA x : x # NoneVal)

\* the number of None slots of a readings list
NoneCount(rs) == Len(rs) - Len(ValidOf(rs))

\* statistics.mean rounded to three decimals, in 0.001 cm
MeanOf(valid) == RoundDiv(10 * SumSeq(valid), Len(valid))

\* line 371 / 400: round(missing / float(N), 3), in thousandths
MissingFraction(miss, n) == RoundDiv(1000 * miss, n)

\* a classifier that has no branch for an empty list
NoValid_Never(valid) == FALSE

\* lines 277 / 291: `if not valid_readings:`
NoValid(valid) == valid = <<>>

\* a standard deviation that is the sample one and undefined for one sample
StdOf_SampleStd(valid) == IF Len(valid) > 1 THEN stdev(valid) ELSE NoneVal

\* lines 280 / 294: round(pstdev(valid) if len(valid) > 1 else 0.0, 3)
StdOf(valid) == IF Len(valid) > 1 THEN pstdev(valid) ELSE 0

\* a shape classifier with its two thresholds exchanged
ShapeLabel_Swapped(std_v) ==
    IF std_v < SHAPE_CURVED_MILLI THEN "Flat Surface"
    ELSE IF std_v < SHAPE_FLAT_MILLI THEN "Slightly Curved"
    ELSE "Irregular Surface"

\* lines 281-286: the label of a standard deviation, in 0.001 cm
ShapeLabel(std_v) ==
    IF std_v < SHAPE_FLAT_MILLI THEN "Flat Surface"
    ELSE IF std_v < SHAPE_CURVED_MILLI THEN "Slightly Curved"
    ELSE "Irregular Surface"

\* a missing-fraction test that is met at the boundary already
MissingExceeds_OrEqual(missing_fraction) == missing_fraction >= MISSING_LIMIT

\* line 295: missing_fraction > 0.4, the fraction in thousandths
MissingExceeds(missing_fraction) == missing_fraction > MISSING_LIMIT

\* a material classifier that tests the moderate threshold first
MaterialVerdict_ModerateFirst(std_v, missing_fraction) ==
    IF std_v > MATERIAL_MODERATE_MILLI THEN "Possibly Absorbing / Irregular"
    ELSE IF MissingExceeds(missing_fraction) \/ std_v > MATERIAL_ABSORB_MILLI
    THEN "Likely Absorbing / Transparent"
    ELSE "Reflective / Good for Ultrasonic"

\* lines 295-300: the verdict of a standard deviation and missing fraction
MaterialVerdict(std_v, missing_fraction) ==
    IF MissingExceeds(missing_fraction) \/ std_v > MATERIAL_ABSORB_MILLI
    THEN "Likely Absorbing / Transparent"
    ELSE IF std_v > MATERIAL_MODERATE_MILLI
    THEN "Possibly Absorbing / Irregular"
    ELSE "Reflective / Good for Ultrasonic"

\* statistics.mean and statistics.pstdev raise StatisticsError for an empty
\* list: what a classifier yields when it reaches them with one
StatisticsError == [mean |-> NoneVal, std |-> NoneVal, label |-> "StatisticsError"]

\* lines 275-287, as (mean, std, label)
classify_shape_from_stats(valid) ==
    IF NoValid(valid)
    THEN [mean |-> NoneVal, std |-> NoneVal, label |-> "No reliable echoes"]
    ELSE IF valid = <<>> THEN StatisticsError
    ELSE [mean |-> MeanOf(valid), std |-> StdOf(valid),
          label |-> ShapeLabel(StdOf(valid))]

\* lines 289-301, as (mean, std, label) with the verdict as label
classify_material_from_stats(valid, missing_fraction) ==
    IF NoValid(valid)
    THEN [mean |-> NoneVal, std |-> NoneVal,
          label |-> "No echoes - likely highly absorbing/transparent"]
    ELSE IF valid = <<>> THEN StatisticsError
    ELSE [mean |-> MeanOf(valid), std |-> StdOf(valid),
          label |-> MaterialVerdict(StdOf(valid), missing_fraction)]

\* lines 368-381 / 399-411: the JSON body of a batch route with N slots
BatchBody(route, rs, miss, n) ==
    LET valid == ValidOf(rs)
        frac == MissingFraction(miss, n)
        st == IF route = "measure_shape"
              THEN classify_shape_from_stats(valid)
              ELSE classify_material_from_stats(valid, frac)
    IN  [readings |-> rs,
         valid_count |-> Len(valid),
         missing_fraction |-> frac,
         average |-> st.mean,
         std |-> st.std,
         label |-> st.label,
         distance_val |-> NoneVal]

\* the routes that beep once their `with hw_lock:` block is left
BeepsAfter(route) == route # "read_current"

\* thread t is inside a beep() call that drives the buzzer pin
DrivesBuzzer(t) == pc[t] = "beep" /\ buzzer = "open"

\* lines 368-372 / 399-402 / 316-328 / 341-350: the values of the JSON body
\* of the route are computed
Respond(t) ==
    /\ UNCHANGED <<measVars, menuVars, autoVars, statVars, tempVars, beeps>>
    /\ Alive
    /\ pc[t] = "respond"
    /\ resp' = [resp EXCEPT ![t] =
         IF req[t] \in BatchRoutes
         THEN BatchBody(req[t], readings[t], missing[t], BatchSize(req[t]))
         ELSE [NoResp EXCEPT !.distance_val = d[t]]]
    /\ pc' = [pc EXCEPT ![t] = IF BeepsAfter(req[t]) THEN "beep" ELSE "return"]
    /\ UNCHANGED <<hw_lock, distance_sensor, proc, scene, sceneChanges, req,
                   attempt, d, readings, missing, i, nreads, sensorClaims,
                   buzzer>>

\* lines 340 / 373 / 403: beep(1) or beep(2) after the `with` block; the
\* call blocks while it switches the buzzer on and off (lines 187-198), and
\* drives the pin when the Buzzer object exists and is not closed
Beep(t) ==
    /\ UNCHANGED <<measVars, menuVars, autoVars, statVars, tempVars>>
    /\ Alive
    /\ pc[t] = "beep"
    /\ beeps' = [beeps EXCEPT ![t] = @ + FinishBeeps(req[t])]
    /\ pc' = [pc EXCEPT ![t] = "return"]
    /\ UNCHANGED <<hw_lock, distance_sensor, proc, scene, sceneChanges, req,
                   attempt, d, readings, missing, i, nreads, resp,
                   sensorClaims, buzzer>>

\* the handler returns; its locals are gone
Return(t) ==
    /\ UNCHANGED <<measVars, menuVars, autoVars, statVars, tempVars>>
    /\ Alive
    /\ pc[t] = "return"
    /\ pc' = [pc EXCEPT ![t] = "idle"]
    /\ req' = [req EXCEPT ![t] = "none"]
    /\ attempt' = [attempt EXCEPT ![t] = 0]
    /\ d' = [d EXCEPT ![t] = NoneVal]
    /\ readings' = [readings EXCEPT ![t] = <<>>]
    /\ missing' = [missing EXCEPT ![t] = 0]
    /\ i' = [i EXCEPT ![t] = 0]
    /\ nreads' = [nreads EXCEPT ![t] = 0]
    /\ resp' = [resp EXCEPT ![t] = NoResp]
    /\ beeps' = [beeps EXCEPT ![t] = 0]
    /\ UNCHANGED <<hw_lock, distance_sensor, proc, scene, sceneChanges,
                   sensorClaims, buzzer>>

\* SIGINT or SIGTERM: the handler of lines 179-180 runs cleanup_all, whose
\* first part (lines 153-166) closes and forgets the sensor and closes the
\* buzzer, which stays bound to the closed object
CleanupAll ==
    /\ UNCHANGED <<measVars, menuVars, autoVars, statVars, tempVars, beeps>>
    /\ proc = "running"
    /\ distance_sensor' = "None"
    /\ sensorClaims' = IF distance_sensor = "open" THEN sensorClaims - 1
                       ELSE sensorClaims
    /\ buzzer' = IF buzzer = "open" THEN "closed" ELSE buzzer
    /\ proc' = "closing"
    /\ UNCHANGED <<hw_lock, scene, sceneChanges, pc, req, attempt, d,
                   readings, missing, i, nreads, resp>>

\* cleanup_all, lines 162-174, then os._exit(0): the process image, with
\* every request thread and its locals, is gone; the pins keep their state
Exit ==
    /\ UNCHANGED <<measVars, menuVars, autoVars, statVars, tempVars>>
    /\ proc = "closing"
    /\ proc' = "exited"
    /\ hw_lock' = NoHolder
    /\ pc' = [t \in Callers |-> "gone"]
    /\ req' = [t \in Callers |-> "none"]
    /\ attempt' = [t \in Callers |-> 0]
    /\ d' = [t \in Callers |-> NoneVal]
    /\ readings' = [t \in Callers |-> <<>>]
    /\ missing' = [t \in Callers |-> 0]
    /\ i' = [t \in Callers |-> 0]
    /\ nreads' = [t \in Callers |-> 0]
    /\ resp' = [t \in Callers |-> NoResp]
    /\ beeps' = [t \in Callers |-> 0]
    /\ UNCHANGED <<distance_sensor, scene, sceneChanges, sensorClaims,
                   buzzer>>

AppNext ==
    \/ SceneChange
    \/ CleanupAll
    \/ Exit
    \/ \E t \in Callers :
          \/ Request(t)
          \/ Acquire(t)
          \/ ReadEntry(t)
          \/ Attempt(t)
          \/ Store(t)
          \/ Release(t)
          \/ Respond(t)
          \/ Beep(t)
          \/ Return(t)

(***************************************************************************)
(* One trigger/echo measurement: menu.py measure_distance_once, autorun.py *)
(* ultrasonic_distance, diagnostic.py get_distance.                        *)
(***************************************************************************)
Never == 100 * (MaxTime + 1)

Routines == {"menu", "autorun", "diagnostic"}
AmbientTemps == {20, 25}

\* lgpio.gpio_read(h, ECHO) at tick t
Echo(t) == IF riseAt <= t /\ t < fallAt THEN 1 ELSE 0

\* the parked state of the routine while another script is the one running
MeasIdle ==
    /\ routine = "none"
    /\ mpc = "done"
    /\ now = 0
    /\ riseAt = Never
    /\ fallAt = Never
    /\ ambient = 20
    /\ start = Unset
    /\ stop = Unset
    /\ timeout = Unset
    /\ result = NoneVal
    /\ raised = FALSE
    /\ t0 = Unset
    /\ tFall = Unset
    /\ timedOut = FALSE

\* a call of the routine, with the echo the scene is going to produce
MeasInit ==
    /\ routine \in Routines
    /\ mpc = "trigger"
    /\ now = 0
    /\ riseAt \in (0..MaxRise) \cup {Never}
    /\ fallAt \in IF riseAt = Never THEN {Never}
                  ELSE {riseAt + w : w \in 1..MaxWidth} \cup {Never}
    /\ ambient \in AmbientTemps
    /\ start = Unset
    /\ stop = Unset
    /\ timeout = Unset
    /\ result = NoneVal
    /\ raised = FALSE
    /\ t0 = Unset
    /\ tFall = Unset
    /\ timedOut = FALSE

\* menu.py line 163, 331.0 + 0.6 * ambient_c, in 0.1 m/s
speed_of_sound_m_s(ambient_c) == 3310 + 6 * ambient_c

\* menu.py lines 192-197: round((elapsed * speed * 100.0) / 2.0, 2) for an
\* elapsed time in ticks of 10 ms and a speed in 0.1 m/s, in 0.01 cm
MenuDistance(elapsed, speed) == RoundDiv(elapsed * speed * 10, 2)

\* autorun.py lines 84-85, 331.4 + 0.6 * ambient_temp and
\* (duration * speed_of_sound) / 2 * 100, in 0.01 cm
AutoDistance(duration, ambient_temp) ==
    (duration * (3314 + 6 * ambient_temp) * 10) \div 2

\* diagnostic.py lines 115-117: round((elapsed * 34300) / 2, 2), in 0.01 cm
DiagDistance(elapsed) == RoundDiv(elapsed * 34300, 2)

\* menu.py lines 168-179: the trigger pulse, then start and the deadline; a
\* failing gpio_write returns None
MenuTrigger ==
    /\ UNCHANGED <<appVars, menuVars, autoVars, statVars, tempVars>>
    /\ routine = "menu"
    /\ mpc = "trigger"
    /\ \/ /\ start' = now
          /\ timeout' = now + TIMEOUT_MENU
          /\ t0' = now
          /\ mpc' = "rise"
          /\ UNCHANGED result
       \/ /\ result' = NoneVal
          /\ mpc' = "done"
          /\ UNCHANGED <<start, timeout, t0>>
    /\ UNCHANGED <<routine, now, riseAt, fallAt, ambient, stop, raised,
                   tFall, timedOut>>

\* menu.py line 183 / 189: `if time.time() > timeout`
MenuExpired(t, deadline) == t > deadline

\* menu.py lines 181-186: one iteration of the wait for echo high, or its end
MenuPollRise ==
    /\ UNCHANGED <<appVars, menuVars, autoVars, statVars, tempVars>>
    /\ routine = "menu"
    /\ mpc = "rise"
    /\ IF Echo(now) = 0
       THEN /\ now' = now + 1
            /\ start' = now + 1
            /\ IF MenuExpired(now + 1, timeout)
               THEN /\ result' = NoneVal
                    /\ timedOut' = TRUE
                    /\ mpc' = "done"
               ELSE UNCHANGED <<result, timedOut, mpc>>
            /\ UNCHANGED <<stop, tFall>>
       ELSE /\ stop' = now
            /\ tFall' = now
            /\ mpc' = "fall"
            /\ UNCHANGED <<now, start, result, timedOut>>
    /\ UNCHANGED <<routine, riseAt, fallAt, ambient, timeout, raised, t0>>

\* menu.py lines 187-190: one iteration of the wait for echo low, or its end
MenuPollFall ==
    /\ UNCHANGED <<appVars, menuVars, autoVars, statVars, tempVars>>
    /\ routine = "menu"
    /\ mpc = "fall"
    /\ IF Echo(now) = 1
       THEN /\ now' = now + 1
            /\ stop' = now + 1
            /\ IF MenuExpired(now + 1, timeout)
               THEN /\ result' = NoneVal
                    /\ timedOut' = TRUE
                    /\ mpc' = "done"
               ELSE UNCHANGED <<result, timedOut, mpc>>
       ELSE /\ mpc' = "convert"
            /\ UNCHANGED <<now, stop, result, timedOut>>
    /\ UNCHANGED <<routine, riseAt, fallAt, ambient, start, timeout, raised,
                   t0, tFall>>

\* menu.py lines 192-197: elapsed time to distance, returned as it is
MenuConvert ==
    /\ UNCHANGED <<appVars, menuVars, autoVars, statVars, tempVars>>
    /\ routine = "menu"
    /\ mpc = "convert"
    /\ result' = MenuDistance(stop - start, speed_of_sound_m_s(ambient))
    /\ mpc' = "done"
    /\ UNCHANGED <<routine, now, riseAt, fallAt, ambient, start, stop,
                   timeout, raised, t0, tFall, timedOut>>

\* autorun.py lines 68-75: the trigger pulse, then the deadline
AutoTrigger ==
    /\ UNCHANGED <<appVars, menuVars, autoVars, statVars, tempVars>>
    /\ routine = "autorun"
    /\ mpc = "trigger"
    /\ timeout' = now + TIMEOUT_AUTO
    /\ t0' = now
    /\ mpc' = "rise"
    /\ UNCHANGED <<routine, now, riseAt, fallAt, ambient, start, stop,
                   result, raised, tFall, timedOut>>

\* autorun.py lines 77-78: `while read == 0 and time.time() < timeout:
\* pulse_start = time.time()`
AutoPollRise ==
    /\ UNCHANGED <<appVars, menuVars, autoVars, statVars, tempVars>>
    /\ routine = "autorun"
    /\ mpc = "rise"
    /\ IF Echo(now) = 0 /\ now < timeout
       THEN /\ now' = now + 1
            /\ start' = now + 1
            /\ UNCHANGED <<mpc, tFall, timedOut>>
       ELSE /\ mpc' = "fall"
            /\ tFall' = now
            /\ timedOut' = (Echo(now) = 0)
            /\ UNCHANGED <<now, start>>
    /\ UNCHANGED <<routine, riseAt, fallAt, ambient, stop, timeout, result,
                   raised, t0>>

\* autorun.py lines 79-80: `while read == 1 and time.time() < timeout:
\* pulse_end = time.time()`
AutoPollFall ==
    /\ UNCHANGED <<appVars, menuVars, autoVars, statVars, tempVars>>
    /\ routine = "autorun"
    /\ mpc = "fall"
    /\ IF Echo(now) = 1 /\ now < timeout
       THEN /\ now' = now + 1
            /\ stop' = now + 1
            /\ UNCHANGED <<mpc, timedOut>>
       ELSE /\ mpc' = "convert"
            /\ timedOut' = (timedOut \/ Echo(now) = 1)
            /\ UNCHANGED <<now, stop>>
    /\ UNCHANGED <<routine, riseAt, fallAt, ambient, start, timeout, result,
                   raised, t0, tFall>>

\* autorun.py lines 82-86: pulse_end - pulse_start raises UnboundLocalError
\* when a loop never ran its body; otherwise the distance is returned
AutoConvert ==
    /\ UNCHANGED <<appVars, menuVars, autoVars, statVars, tempVars>>
    /\ routine = "autorun"
    /\ mpc = "convert"
    /\ IF start = Unset \/ stop = Unset
       THEN /\ raised' = TRUE
            /\ UNCHANGED result
       ELSE /\ result' = AutoDistance(stop - start, ambient)
            /\ UNCHANGED raised
    /\ mpc' = "done"
    /\ UNCHANGED <<routine, now, riseAt, fallAt, ambient, start, stop,
                   timeout, t0, tFall, timedOut>>

\* diagnostic.py lines 103-107: the trigger pulse
DiagTrigger ==
    /\ UNCHANGED <<appVars, menuVars, autoVars, statVars, tempVars>>
    /\ routine = "diagnostic"
    /\ mpc = "trigger"
    /\ start' = now
    /\ t0' = now
    /\ mpc' = "rise"
    /\ UNCHANGED <<routine, now, riseAt, fallAt, ambient, stop, timeout,
                   result, raised, tFall, timedOut>>

\* diagnostic.py lines 108-111: `while read == 0: start_time = time.time()`
DiagPollRise ==
    /\ UNCHANGED <<appVars, menuVars, autoVars, statVars, tempVars>>
    /\ routine = "diagnostic"
    /\ mpc = "rise"
    /\ IF Echo(now) = 0
       THEN /\ now < MaxTime
            /\ now' = now + 1
            /\ start' = now + 1
            /\ UNCHANGED <<stop, tFall, mpc>>
       ELSE /\ stop' = now
            /\ tFall' = now
            /\ mpc' = "fall"
            /\ UNCHANGED <<now, start>>
    /\ UNCHANGED <<routine, riseAt, fallAt, ambient, timeout, result, raised,
                   t0, timedOut>>

\* diagnostic.py lines 112-113: `while read == 1: stop_time = time.time()`
DiagPollFall ==
    /\ UNCHANGED <<appVars, menuVars, autoVars, statVars, tempVars>>
    /\ routine = "diagnostic"
    /\ mpc = "fall"
    /\ IF Echo(now) = 1
       THEN /\ now < MaxTime
            /\ now' = now + 1
            /\ stop' = now + 1
            /\ UNCHANGED mpc
       ELSE /\ mpc' = "convert"
            /\ UNCHANGED <<now, stop>>
    /\ UNCHANGED <<routine, riseAt, fallAt, ambient, start, timeout, result,
                   raised, t0, tFall, timedOut>>

\* diagnostic.py lines 115-117
DiagConvert ==
    /\ UNCHANGED <<appVars, menuVars, autoVars, statVars, tempVars>>
    /\ routine = "diagnostic"
    /\ mpc = "convert"
    /\ result' = DiagDistance(stop - start)
    /\ mpc' = "done"
    /\ UNCHANGED <<routine, now, riseAt, fallAt, ambient, start, stop,
                   timeout, raised, t0, tFall, timedOut>>

MeasNext ==
    \/ MenuTrigger
    \/ MenuPollRise
    \/ MenuPollFall
    \/ MenuConvert
    \/ AutoTrigger
    \/ AutoPollRise
    \/ AutoPollFall
    \/ AutoConvert
    \/ DiagTrigger
    \/ DiagPollRise
    \/ DiagPollFall
    \/ DiagConvert

(***************************************************************************)
(* menu.py: chip and pin claims, the button-started tests, cleanup.        *)
(***************************************************************************)
Pins == {TRIG, ECHO, BUZZER, BUTTON}

\* lines 76-80: the order of the claims, and which are outputs
PinSeq == <<TRIG, ECHO, BUZZER, BUTTON>>
IsOutput(pin) == pin \in {TRIG, BUZZER}

\* what measure_distance_once hands to a test: None, 171.5 cm or 343.0 cm
\* (an echo of one or two ticks at 20 degrees)
MenuSamples ==
    {NoneVal} \cup {MenuDistance(e, speed_of_sound_m_s(20)) : e \in 1..2}

NoMres == [readings |-> <<>>, mean |-> NoneVal]

\* the state in which the script starts
MenuInit ==
    /\ mstep = "open"
    /\ mpin = 1
    /\ h = 0
    /\ handle = 0
    /\ openHandles = {}
    /\ claimedOn = [p \in Pins |-> 0]
    /\ claimOk = [p \in Pins |-> FALSE]
    /\ tries = 0
    /\ reopened = FALSE
    /\ outcome = "none"
    /\ callPin = 0
    /\ choice = "none"
    /\ mreadings = <<>>
    /\ mraw = <<>>
    /\ mres = NoMres
    /\ exitCode = NoneVal
    /\ lows = 0
    /\ mbeeps = 0

\* the parked state of menu.py while another script is the one running
MenuIdle == MenuInit

\* a fresh handle, as gpiochip_open returns it
NewHandle == h + 1

\* the step after the claim of pin number k: the next claim, or the menu
AfterClaim(k) == IF k < Len(PinSeq) THEN "claim" ELSE "menu"

\* gpiochip_close(x): the handle is gone, and with it the claims made on it
ClaimsAfterClose(x) == [p \in Pins |-> IF claimedOn[p] = x THEN 0 ELSE claimedOn[p]]

\* lines 43-48 and 76: open_chip at start; a failure ends the process
\* through sys.exit(1)
OpenChip ==
    /\ UNCHANGED <<appVars, measVars, autoVars, statVars, tempVars, testLog>>
    /\ mstep = "open"
    /\ \/ /\ h' = NewHandle
          /\ openHandles' = {NewHandle}
          /\ mstep' = "claim"
          /\ UNCHANGED exitCode
       \/ /\ mstep' = "exited"
          /\ exitCode' = 1
          /\ UNCHANGED <<h, openHandles>>
    /\ UNCHANGED <<mpin, handle, claimedOn, claimOk, tries, reopened, outcome,
                   callPin, choice, mreadings, mraw, mres>>

\* a claim routine that retries for inputs as it does for outputs
RetriesOnFailure_Always(pin) == TRUE

\* a failed first claim is followed by the close, reopen and re-claim of
\* lines 56-61 (safe_claim_output) or by `continuing` (safe_claim_input)
RetriesOnFailure(pin) == IsOutput(pin)

\* lines 51-55 / 67-71: the first gpio_claim_output or gpio_claim_input of a
\* call, which the line's state lets succeed or fail with lgpio.error
ClaimFirst ==
    /\ UNCHANGED <<appVars, measVars, autoVars, statVars, tempVars, testLog>>
    /\ mstep = "claim"
    /\ LET pin == PinSeq[mpin]
       IN  /\ tries' = 1
           /\ callPin' = pin
           /\ reopened' = FALSE
           /\ handle' = h
           /\ \/ /\ claimedOn' = [claimedOn EXCEPT ![pin] = h]
                 /\ claimOk' = [claimOk EXCEPT ![pin] = TRUE]
                 /\ outcome' = "ok"
                 /\ mstep' = AfterClaim(mpin)
                 /\ mpin' = mpin + 1
              \/ /\ RetriesOnFailure(pin)
                 /\ outcome' = "none"
                 /\ mstep' = "retry_close"
                 /\ UNCHANGED <<claimedOn, claimOk, mpin>>
              \/ /\ ~RetriesOnFailure(pin)
                 /\ outcome' = "continuing"
                 /\ mstep' = AfterClaim(mpin)
                 /\ mpin' = mpin + 1
                 /\ UNCHANGED <<claimedOn, claimOk>>
    /\ UNCHANGED <<h, openHandles, choice, mreadings, mraw, mres, exitCode>>

\* line 57: lgpio.gpiochip_close(handle)
RetryClose ==
    /\ UNCHANGED <<appVars, measVars, autoVars, statVars, tempVars, testLog>>
    /\ mstep = "retry_close"
    /\ openHandles' = openHandles \ {handle}
    /\ claimedOn' = ClaimsAfterClose(handle)
    /\ mstep' = "retry_open"
    /\ UNCHANGED <<mpin, h, handle, claimOk, tries, reopened, outcome,
                   callPin, choice, mreadings, mraw, mres, exitCode>>

\* lines 58-59: handle = open_chip(); its sys.exit(1) is no Exception and
\* passes the handler of line 62
RetryOpen ==
    /\ UNCHANGED <<appVars, measVars, autoVars, statVars, tempVars, testLog>>
    /\ mstep = "retry_open"
    /\ \/ /\ handle' = NewHandle
          /\ openHandles' = openHandles \cup {NewHandle}
          /\ reopened' = TRUE
          /\ mstep' = "retry_claim"
          /\ UNCHANGED <<outcome, exitCode>>
       \/ /\ outcome' = "exit"
          /\ mstep' = "exited"
          /\ exitCode' = 1
          /\ UNCHANGED <<handle, openHandles, reopened>>
    /\ UNCHANGED <<mpin, h, claimedOn, claimOk, tries, callPin, choice,
                   mreadings, mraw, mres>>

\* lines 60-64: the second gpio_claim_output; whatever it gives, the new
\* handle is returned and assigned to h
RetryClaim ==
    /\ UNCHANGED <<appVars, measVars, autoVars, statVars, tempVars, testLog>>
    /\ mstep = "retry_claim"
    /\ LET pin == PinSeq[mpin]
       IN  /\ tries' = tries + 1
           /\ \/ /\ claimedOn' = [claimedOn EXCEPT ![pin] = handle]
                 /\ claimOk' = [claimOk EXCEPT ![pin] = TRUE]
                 /\ outcome' = "reclaimed"
              \/ /\ outcome' = "gave_up"
                 /\ UNCHANGED <<claimedOn, claimOk>>
    /\ h' = handle
    /\ mstep' = AfterClaim(mpin)
    /\ mpin' = mpin + 1
    /\ UNCHANGED <<handle, openHandles, reopened, callPin, choice, mreadings,
                   mraw, mres, exitCode>>

\* lines 346-360: the selection read by input()
Choices == {"1", "2", "3", "q", "other"}

\* lines 262 / 285 / 314: the number of samples of the selected test
TestSize(c) == IF c = "1" THEN 3 ELSE READINGS_COUNT

\* lines 336-361: one selection of menu_loop; q breaks the loop into the
\* `finally: cleanup()` of line 391
Choose ==
    /\ UNCHANGED <<appVars, measVars, autoVars, statVars, tempVars>>
    /\ mstep = "menu"
    /\ \E c \in Choices :
          /\ choice' = c
          /\ mstep' = IF c = "q" THEN "cleanup"
                      ELSE IF c = "other" THEN "menu" ELSE "wait_button"
    /\ mreadings' = <<>>
    /\ mraw' = <<>>
    /\ mres' = NoMres
    /\ lows' = 0
    /\ mbeeps' = 0
    /\ UNCHANGED <<mpin, h, handle, openHandles, claimedOn, claimOk, tries,
                   reopened, outcome, callPin, exitCode>>

\* a wait that returns on the first low read
AfterFirstLow_NoDebounce == "sample"

\* lines 224-226: a low read is followed by the debounce sleep and a
\* second read
AfterFirstLow == "debounce"

\* lines 217-230: a poll of the button that reads low starts the debounce;
\* a read that raises (the pin is not claimed) counts as high
ButtonPoll ==
    /\ UNCHANGED <<appVars, measVars, autoVars, statVars, tempVars>>
    /\ mstep = "wait_button"
    /\ \/ /\ claimedOn[BUTTON] = h
          /\ lows' = 1
          /\ mstep' = AfterFirstLow
       \/ /\ lows' = 0
          /\ mstep' = "wait_button"
    /\ UNCHANGED mbeeps
    /\ UNCHANGED <<mpin, h, handle, openHandles, claimedOn, claimOk, tries,
                   reopened, outcome, callPin, choice, mreadings, mraw, mres,
                   exitCode>>

\* lines 226-229: the second read after 50 ms; low again returns, and
\* beep(times=1) (lines 259 / 283 / 312) starts the test
ButtonDebounce ==
    /\ UNCHANGED <<appVars, measVars, autoVars, statVars, tempVars>>
    /\ mstep = "debounce"
    /\ \/ /\ lows' = lows + 1
          /\ mbeeps' = 1
          /\ mstep' = "sample"
       \/ /\ lows' = 0
          /\ mstep' = "wait_button"
          /\ UNCHANGED mbeeps
    /\ UNCHANGED <<mpin, h, handle, openHandles, claimedOn, claimOk, tries,
                   reopened, outcome, callPin, choice, mreadings, mraw, mres,
                   exitCode>>

\* lines 287-288: `if d is None: d = 0.0`
SlotValue(dv) == IF dv = NoneVal THEN 0 ELSE dv

\* line 295: round(statistics.mean(readings), 2), in 0.01 cm
MenuMean(rs) == RoundDiv(SumSeq(rs), Len(rs))

\* lines 285-294: one sample of a test. Without the TRIG claim the trigger
\* write fails inside the try of lines 168-176 and the sample is None;
\* without the ECHO claim the gpio_read of line 181, which no try encloses,
\* raises lgpio.error out of measure_distance_once.
Sample ==
    /\ UNCHANGED <<appVars, measVars, autoVars, statVars, tempVars, testLog>>
    /\ mstep = "sample"
    /\ \/ /\ claimedOn[TRIG] = h
          /\ claimedOn[ECHO] # h
          /\ mstep' = "raised"
          /\ UNCHANGED <<mreadings, mraw>>
       \/ /\ \E dv \in MenuSamples :
                /\ claimedOn[TRIG] # h => dv = NoneVal
                /\ claimedOn[TRIG] = h => claimedOn[ECHO] = h
                /\ mraw' = Append(mraw, dv)
                /\ mreadings' = Append(mreadings, SlotValue(dv))
          /\ mstep' = IF Len(mreadings) + 1 < TestSize(choice)
                      THEN "sample" ELSE "stats"
    /\ UNCHANGED <<mpin, h, handle, openHandles, claimedOn, claimOk, tries,
                   reopened, outcome, callPin, choice, mres, exitCode>>

\* the exception of a measurement passes option_* and menu_loop, which catch
\* nothing, and reaches the `finally: cleanup()` of lines 388-391
Unwind ==
    /\ UNCHANGED <<appVars, measVars, autoVars, statVars, tempVars, testLog>>
    /\ mstep = "raised"
    /\ mstep' = "cleanup"
    /\ UNCHANGED <<mpin, h, handle, openHandles, claimedOn, claimOk, tries,
                   reopened, outcome, callPin, choice, mreadings, mraw, mres,
                   exitCode>>

\* lines 295-302: the mean over the readings list, beep(times=2) and the
\* result dictionary; std_dev and the label are computed from the same list
Stats ==
    /\ UNCHANGED <<appVars, measVars, autoVars, statVars, tempVars>>
    /\ mstep = "stats"
    /\ mres' = [readings |-> mreadings, mean |-> MenuMean(mreadings)]
    /\ mbeeps' = mbeeps + 2
    /\ mstep' = "result"
    /\ UNCHANGED lows
    /\ UNCHANGED <<mpin, h, handle, openHandles, claimedOn, claimOk, tries,
                   reopened, outcome, callPin, choice, mreadings, mraw,
                   exitCode>>

\* lines 347-361: the result is printed and the menu shown again
ShowResult ==
    /\ UNCHANGED <<appVars, measVars, autoVars, statVars, tempVars, testLog>>
    /\ mstep = "result"
    /\ mstep' = "menu"
    /\ UNCHANGED <<mpin, h, handle, openHandles, claimedOn, claimOk, tries,
                   reopened, outcome, callPin, choice, mreadings, mraw, mres,
                   exitCode>>

\* the handler of line 382 is installed and the menu loop runs
InMenuLoop ==
    mstep \in {"menu", "wait_button", "debounce", "sample", "stats", "result"}

\* SIGINT while the menu loop runs: cleanup is entered as the handler
SigInt ==
    /\ UNCHANGED <<appVars, measVars, autoVars, statVars, tempVars, testLog>>
    /\ InMenuLoop
    /\ mstep' = "cleanup"
    /\ UNCHANGED <<mpin, h, handle, openHandles, claimedOn, claimOk, tries,
                   reopened, outcome, callPin, choice, mreadings, mraw, mres,
                   exitCode>>

\* lines 366-380, cleanup: the chip handle is closed, then sys.exit(0)
Cleanup ==
    /\ UNCHANGED <<appVars, measVars, autoVars, statVars, tempVars, testLog>>
    /\ mstep = "cleanup"
    /\ openHandles' = openHandles \ {h}
    /\ claimedOn' = ClaimsAfterClose(h)
    /\ mstep' = "exited"
    /\ exitCode' = 0
    /\ UNCHANGED <<mpin, h, handle, claimOk, tries, reopened, outcome,
                   callPin, choice, mreadings, mraw, mres>>

\* SIGTERM, for which menu.py installs no handler: the process ends at once
SigTerm ==
    /\ UNCHANGED <<appVars, measVars, autoVars, statVars, tempVars, testLog>>
    /\ mstep # "exited"
    /\ mstep' = "exited"
    /\ exitCode' = 143
    /\ UNCHANGED <<mpin, h, handle, openHandles, claimedOn, claimOk, tries,
                   reopened, outcome, callPin, choice, mreadings, mraw, mres>>

MenuNext ==
    \/ OpenChip
    \/ ClaimFirst
    \/ RetryClose
    \/ RetryOpen
    \/ RetryClaim
    \/ Choose
    \/ ButtonPoll
    \/ ButtonDebounce
    \/ Sample
    \/ Unwind
    \/ Stats
    \/ ShowResult
    \/ SigInt
    \/ Cleanup
    \/ SigTerm

(***************************************************************************)
(* autorun.py: the main loop and the live_menu threads.                    *)
(***************************************************************************)
MenuThreads == 1..MaxMenuThreads

AutoChoices == {"1", "2", "3", "other"}

\* lines 94 / 105 / 118: the number of samples of a test
AutoTestSize(c) == IF c = "1" THEN AUTO_DISTANCE_READINGS ELSE AUTO_READINGS

\* lines 24-28 and 167-168: the chip is open, the pins are claimed, the first
\* live_menu thread has been started and the main thread reaches input()
AutoInit ==
    /\ astep = "input"
    /\ achoice = "none"
    /\ stop_menu = FALSE
    /\ asamples = 0
    /\ lm = [k \in MenuThreads |-> IF k = 1 THEN "check" ELSE "unborn"]
    /\ achip = "open"

\* the parked state of autorun.py while another script is the one running
AutoIdle ==
    /\ astep = "not_started"
    /\ achoice = "none"
    /\ stop_menu = FALSE
    /\ asamples = 0
    /\ lm = [k \in MenuThreads |-> "unborn"]
    /\ achip = "closed"

\* the interpreter runs: no uncaught exception and no handled interrupt yet
AutoRunning == astep \notin {"not_started", "crashed", "closed"}

\* the main thread is inside test_distance, test_shape or test_material
InTest == astep \in {"sample", "measuring", "finish"}

\* lines 172-176: a choice is read and stop_menu is set
AutoInput ==
    /\ UNCHANGED <<appVars, measVars, menuVars, statVars, tempVars>>
    /\ astep = "input"
    /\ \E c \in AutoChoices : achoice' = c
    /\ stop_menu' = TRUE
    /\ astep' = "button"
    /\ UNCHANGED <<asamples, lm, achip>>

\* lines 177-188: the button is polled; once it reads low the test of the
\* choice is called (buzzer_beep(1), readings = []), or "Invalid Choice" is
\* shown
AutoButton ==
    /\ UNCHANGED <<appVars, measVars, menuVars, statVars, tempVars>>
    /\ astep = "button"
    /\ \/ /\ achoice # "other"
          /\ astep' = "sample"
       \/ /\ achoice = "other"
          /\ astep' = "restart"
       \/ /\ astep' = "button"
    /\ asamples' = 0
    /\ UNCHANGED <<achoice, stop_menu, lm, achip>>

\* lines 95 / 106 / 119: the test calls ultrasonic_distance, which sends the
\* trigger pulse (lines 68-72)
AutoSampleCall ==
    /\ UNCHANGED <<appVars, measVars, menuVars, statVars, tempVars>>
    /\ astep = "sample"
    /\ astep' = "measuring"
    /\ UNCHANGED <<achoice, stop_menu, asamples, lm, achip>>

\* lines 74-86 and 96-97: ultrasonic_distance returns a number, which is
\* appended, or raises UnboundLocalError (line 82) when a polling loop never
\* ran; nothing in the test or in the main loop catches it (line 194 names
\* KeyboardInterrupt only) and the interpreter ends with the chip open
AutoSampleReturn ==
    /\ UNCHANGED <<appVars, measVars, menuVars, statVars, tempVars>>
    /\ astep = "measuring"
    /\ \/ /\ asamples' = asamples + 1
          /\ astep' = IF asamples + 1 < AutoTestSize(achoice)
                      THEN "sample" ELSE "finish"
       \/ /\ astep' = "crashed"
          /\ UNCHANGED asamples
    /\ UNCHANGED <<achoice, stop_menu, lm, achip>>

\* lines 98-100 / 109-113 / 122-125: statistics, show_oled, buzzer_beep(2)
AutoFinish ==
    /\ UNCHANGED <<appVars, measVars, menuVars, statVars, tempVars>>
    /\ astep = "finish"
    /\ astep' = "restart"
    /\ UNCHANGED <<achoice, stop_menu, asamples, lm, achip>>

\* lines 190-192: stop_menu = False and a new live_menu thread is started,
\* whether or not an earlier one has ended
AutoRestart ==
    /\ UNCHANGED <<appVars, measVars, menuVars, statVars, tempVars>>
    /\ astep = "restart"
    /\ stop_menu' = FALSE
    /\ \E k \in MenuThreads :
          /\ lm[k] \in {"unborn", "ended"}
          /\ lm' = [lm EXCEPT ![k] = "check"]
    /\ astep' = "input"
    /\ UNCHANGED <<achoice, asamples, achip>>

\* lines 194-197: Ctrl-C in the main thread; stop_menu is set, the chip is
\* closed and the script ends
AutoKeyboardInterrupt ==
    /\ UNCHANGED <<appVars, measVars, menuVars, statVars, tempVars>>
    /\ AutoRunning
    /\ stop_menu' = TRUE
    /\ achip' = "closed"
    /\ astep' = "closed"
    /\ UNCHANGED <<achoice, asamples, lm>>

\* line 134: `while not stop_menu:` is tested by thread k
LiveCheck(k) ==
    /\ UNCHANGED <<appVars, measVars, menuVars, statVars, tempVars>>
    /\ AutoRunning
    /\ lm[k] = "check"
    /\ lm' = [lm EXCEPT ![k] = IF stop_menu THEN "ended" ELSE "read"]
    /\ UNCHANGED <<astep, achoice, stop_menu, asamples, achip>>

\* lines 136-139: the temperature and colour reads, then the call of
\* ultrasonic_distance, which sends the trigger pulse; a read that raises
\* goes to the handler of line 160
LiveMeasureCall(k) ==
    /\ UNCHANGED <<appVars, measVars, menuVars, statVars, tempVars>>
    /\ AutoRunning
    /\ lm[k] = "read"
    /\ \/ lm' = [lm EXCEPT ![k] = "measuring"]
       \/ lm' = [lm EXCEPT ![k] = "sleep"]
    /\ UNCHANGED <<astep, achoice, stop_menu, asamples, achip>>

\* lines 139-162: ultrasonic_distance returns or raises; either way the
\* thread reaches a time.sleep(2)
LiveMeasureReturn(k) ==
    /\ UNCHANGED <<appVars, measVars, menuVars, statVars, tempVars>>
    /\ AutoRunning
    /\ lm[k] = "measuring"
    /\ lm' = [lm EXCEPT ![k] = "sleep"]
    /\ UNCHANGED <<astep, achoice, stop_menu, asamples, achip>>

\* lines 159 / 162: the sleep ends and the loop condition is next
LiveWake(k) ==
    /\ UNCHANGED <<appVars, measVars, menuVars, statVars, tempVars>>
    /\ AutoRunning
    /\ lm[k] = "sleep"
    /\ lm' = [lm EXCEPT ![k] = "check"]
    /\ UNCHANGED <<astep, achoice, stop_menu, asamples, achip>>

AutoNext ==
    \/ AutoInput
    \/ AutoButton
    \/ AutoSampleCall
    \/ AutoSampleReturn
    \/ AutoFinish
    \/ AutoRestart
    \/ AutoKeyboardInterrupt
    \/ \E k \in MenuThreads :
          \/ LiveCheck(k)
          \/ LiveMeasureCall(k)
          \/ LiveMeasureReturn(k)
          \/ LiveWake(k)

(***************************************************************************)
(* The reduction of a batch to statistics and a label, as each script      *)
(* does it, applied to batches given as input.                             *)
(***************************************************************************)
Variants == {"app_shape", "app_material", "menu_shape", "menu_material",
             "auto_shape", "auto_material"}

\* the number of samples of a batch
BatchLen(v) ==
    IF v = "app_shape" THEN SHAPE_BATCH
    ELSE IF v = "app_material" THEN MATERIAL_BATCH
    ELSE IF v \in {"menu_shape", "menu_material"} THEN MENU_BATCH
    ELSE AUTO_BATCH

\* how far, in 0.01 cm, some samples of a batch lie from the others
Deltas == {0, 58, 60, 200, 210, 300, 320}

\* a batch of n samples: miss without echo, k at 10 cm + delta, the rest at
\* 10 cm (all valid samples alike when k is 0 or n - miss)
MakeBatch(n, miss, k, delta) ==
    [j \in 1..n |-> IF j <= miss THEN NoneVal
                    ELSE IF j <= miss + k THEN 1000 + delta ELSE 1000]

\* the batches a variant is applied to; ultrasonic_distance of autorun.py
\* has no None to return
BatchesOf(v) ==
    LET n == BatchLen(v)
        misses == IF v \in {"auto_shape", "auto_material"} THEN {0} ELSE 0..n
    IN  UNION {{MakeBatch(n, miss, k, delta) :
                    k \in {(n - miss) \div 2, (n - miss) \div 4, n - miss},
                    delta \in Deltas} : miss \in misses}

NoStat == [mean |-> NoneVal, std |-> NoneVal, label |-> "none",
           missing_fraction |-> NoneVal]

StatInit ==
    /\ svariant \in Variants
    /\ sbatch \in BatchesOf(svariant)
    /\ sres = NoStat

\* the parked state of the reductions while a script is running
StatIdle ==
    /\ svariant = "none"
    /\ sbatch = <<>>
    /\ sres = NoStat

\* app.py lines 368-371: api_measure_shape after its loop
AppShapeStats ==
    /\ UNCHANGED <<appVars, measVars, menuVars, autoVars, tempVars>>
    /\ svariant = "app_shape"
    /\ sres = NoStat
    /\ LET body == BatchBody("measure_shape", sbatch, NoneCount(sbatch),
                             SHAPE_BATCH)
       IN  sres' = [mean |-> body.average, std |-> body.std,
                    label |-> body.label,
                    missing_fraction |-> body.missing_fraction]
    /\ UNCHANGED <<svariant, sbatch>>

\* app.py lines 399-401: api_measure_material after its loop
AppMaterialStats ==
    /\ UNCHANGED <<appVars, measVars, menuVars, autoVars, tempVars>>
    /\ svariant = "app_material"
    /\ sres = NoStat
    /\ LET body == BatchBody("measure_material", sbatch, NoneCount(sbatch),
                             MATERIAL_BATCH)
       IN  sres' = [mean |-> body.average, std |-> body.std,
                    label |-> body.label,
                    missing_fraction |-> body.missing_fraction]
    /\ UNCHANGED <<svariant, sbatch>>

\* menu.py lines 286-289 / 315-318: the readings list of a test, with 0.0
\* in the slot of a sample that was None
MenuReadings(batch) == [j \in 1..Len(batch) |-> SlotValue(batch[j])]

\* menu.py lines 296 / 324: round(statistics.stdev(readings), 3) if
\* len(readings) > 1 else 0.0
MenuStd(rs) == IF Len(rs) > 1 THEN stdev(rs) ELSE 0

\* menu.py lines 235-241
classify_shape(std_dev) ==
    IF std_dev < MENU_FLAT_MILLI THEN "Flat"
    ELSE IF std_dev < MENU_CURVED_MILLI THEN "Curved"
    ELSE "Irregular"

\* menu.py lines 243-245
classify_material(std_dev) ==
    IF std_dev > MENU_ABSORB_MILLI THEN "Absorbing" ELSE "Reflective"

\* menu.py lines 295-297: option_shape after its loop; the mean is kept in
\* 0.001 cm here
MenuShapeStats ==
    /\ UNCHANGED <<appVars, measVars, menuVars, autoVars, tempVars>>
    /\ svariant = "menu_shape"
    /\ sres = NoStat
    /\ LET rs == MenuReadings(sbatch)
       IN  sres' = [mean |-> 10 * MenuMean(rs), std |-> MenuStd(rs),
                    label |-> classify_shape(MenuStd(rs)),
                    missing_fraction |-> NoneVal]
    /\ UNCHANGED <<svariant, sbatch>>

\* menu.py lines 323-325: option_material after its loop
MenuMaterialStats ==
    /\ UNCHANGED <<appVars, measVars, menuVars, autoVars, tempVars>>
    /\ svariant = "menu_material"
    /\ sres = NoStat
    /\ LET rs == MenuReadings(sbatch)
       IN  sres' = [mean |-> 10 * MenuMean(rs), std |-> MenuStd(rs),
                    label |-> classify_material(MenuStd(rs)),
                    missing_fraction |-> NoneVal]
    /\ UNCHANGED <<svariant, sbatch>>

\* autorun.py line 111: "Flat" if std < 0.5 else "Irregular", for the
\* unrounded std = statistics.stdev(readings): std^2 = Spread / (n (n - 1))
AutoShape(rs) ==
    IF Spread(rs) < 2500 * Len(rs) * (Len(rs) - 1) THEN "Flat"
    ELSE "Irregular"

\* autorun.py line 123: "Absorbing" if std > 1 else "Reflective"
AutoMaterial(rs) ==
    IF Spread(rs) > 10000 * Len(rs) * (Len(rs) - 1) THEN "Absorbing"
    ELSE "Reflective"

\* autorun.py lines 109-111: test_shape after its loop; mean and std as the
\* display would show them at three decimals
AutoShapeStats ==
    /\ UNCHANGED <<appVars, measVars, menuVars, autoVars, tempVars>>
    /\ svariant = "auto_shape"
    /\ sres = NoStat
    /\ sres' = [mean |-> MeanOf(sbatch), std |-> stdev(sbatch),
                label |-> AutoShape(sbatch), missing_fraction |-> NoneVal]
    /\ UNCHANGED <<svariant, sbatch>>

\* autorun.py lines 122-123: test_material after its loop
AutoMaterialStats ==
    /\ UNCHANGED <<appVars, measVars, menuVars, autoVars, tempVars>>
    /\ svariant = "auto_material"
    /\ sres = NoStat
    /\ sres' = [mean |-> NoneVal, std |-> stdev(sbatch),
                label |-> AutoMaterial(sbatch), missing_fraction |-> NoneVal]
    /\ UNCHANGED <<svariant, sbatch>>

StatNext ==
    \/ AppShapeStats
    \/ AppMaterialStats
    \/ MenuShapeStats
    \/ MenuMaterialStats
    \/ AutoShapeStats
    \/ AutoMaterialStats

(***************************************************************************)
(* The speed of sound of app.py, menu.py and autorun.py, from the ambient  *)
(* temperature of the MLX90614 or without one.                             *)
(***************************************************************************)
Scripts == {"app", "menu", "autorun"}

\* autorun.py line 46 builds the sensor without a try: the script does not
\* run without one
TempInit ==
    /\ tscript \in Scripts
    /\ mlx \in IF tscript = "autorun" THEN {"ok", "failing"}
               ELSE {"ok", "failing", "None"}
    /\ tambient \in AmbientTemps
    /\ tclock \in 0..1
    /\ sos = Unset
    /\ sosPrev = Unset
    /\ tempKnown = TRUE
    /\ tempKnownPrev = TRUE

\* the parked state of this part while a script is modelled otherwise
TempIdle ==
    /\ tscript = "none"
    /\ mlx = "None"
    /\ tambient = 20
    /\ tclock = 0
    /\ sos = Unset
    /\ sosPrev = Unset
    /\ tempKnown = TRUE
    /\ tempKnownPrev = TRUE

\* time passes between two calls
TempTick ==
    /\ UNCHANGED <<appVars, measVars, menuVars, autoVars, statVars>>
    /\ tscript \in Scripts
    /\ tclock < MaxClock
    /\ tclock' = tclock + 1
    /\ UNCHANGED <<tscript, mlx, tambient, sos, sosPrev, tempKnown,
                   tempKnownPrev>>

\* app.py lines 225-233: the ambient temperature, None without a sensor or
\* when the read raises
safe_temp_read == IF mlx = "ok" THEN tambient ELSE NoneVal

\* app.py lines 235-239: round(331.4 + 0.6 * ambient_c, 2), in 0.1 m/s, and
\* None for None
speed_of_sound(ambient_c) ==
    IF ambient_c = NoneVal THEN NoneVal ELSE 3314 + 6 * ambient_c

\* app.py lines 315-327 / 339-349: the speed of sound of a response
AppSpeed ==
    /\ UNCHANGED <<appVars, measVars, menuVars, autoVars, statVars>>
    /\ tscript = "app"
    /\ sos' = speed_of_sound(safe_temp_read)
    /\ sosPrev' = sos
    /\ tempKnown' = (safe_temp_read # NoneVal)
    /\ tempKnownPrev' = tempKnown
    /\ UNCHANGED <<tscript, mlx, tambient, tclock>>

\* menu.py lines 130-141: the ambient temperature, a value simulated from
\* the clock without a sensor or when the read raises:
\* round(25 + (time.time() % 5) - 2, 2)
read_temps == IF mlx = "ok" THEN tambient ELSE 25 + (tclock % 5) - 2

\* menu.py lines 251-263 / 276-286 / 305-315 and 193-194: a test reads the
\* temperature once and converts its samples with that speed
MenuSpeed ==
    /\ UNCHANGED <<appVars, measVars, menuVars, autoVars, statVars>>
    /\ tscript = "menu"
    /\ sos' = speed_of_sound_m_s(read_temps)
    /\ sosPrev' = sos
    /\ tempKnown' = (mlx = "ok")
    /\ tempKnownPrev' = tempKnown
    /\ UNCHANGED <<tscript, mlx, tambient, tclock>>

\* autorun.py lines 83-86: mlx.get_amb_temp() inside ultrasonic_distance;
\* a read that raises ends the call with the exception
AutoSpeed ==
    /\ UNCHANGED <<appVars, measVars, menuVars, autoVars, statVars>>
    /\ tscript = "autorun"
    /\ sos' = IF mlx = "ok" THEN 3314 + 6 * tambient ELSE DriverExc
    /\ sosPrev' = sos
    /\ tempKnown' = (mlx = "ok")
    /\ tempKnownPrev' = tempKnown
    /\ UNCHANGED <<tscript, mlx, tambient, tclock>>

TempNext ==
    \/ TempTick
    \/ AppSpeed
    \/ MenuSpeed
    \/ AutoSpeed

\* the parked state of app.py while another script is the one running
AppIdle ==
    /\ AppInit
    /\ distance_sensor = "None"
    /\ buzzer = "None"
    /\ scene = DriverExc

(***************************************************************************)
(* Specifications: app.py serving requests; one measurement of a script;   *)
(* a run of menu.py.                                                       *)
(***************************************************************************)
Init == AppInit /\ MeasIdle /\ MenuIdle /\ AutoIdle /\ StatIdle /\ TempIdle
Next == AppNext
Spec == Init /\ [][Next]_vars

InitMeasure == MeasInit /\ AppIdle /\ MenuIdle /\ AutoIdle /\ StatIdle /\ TempIdle
NextMeasure == MeasNext
SpecMeasure == InitMeasure /\ [][NextMeasure]_vars

InitMenu == MenuInit /\ AppIdle /\ MeasIdle /\ AutoIdle /\ StatIdle /\ TempIdle
NextMenu == MenuNext
SpecMenu == InitMenu /\ [][NextMenu]_vars

\* the process that holds the pins runs one of the two scripts: app.py
\* serving requests while menu.py was never started, or menu.py
InitPins == AppInit /\ MenuInit /\ MeasIdle /\ AutoIdle /\ StatIdle /\ TempIdle
NextPins ==
    \/ MenuIdle /\ AppNext
    \/ AppIdle /\ MenuNext
SpecPins == InitPins /\ [][NextPins]_vars

InitAutorun == AutoInit /\ AppIdle /\ MeasIdle /\ MenuIdle /\ StatIdle /\ TempIdle
NextAutorun == AutoNext
SpecAutorun == InitAutorun /\ [][NextAutorun]_vars

\* app.py with its buzzer, in front of a scene that stays as it is (a target
\* in range or a failing driver), with the scheduling of
\* its threads while it serves a single-shot and a batch route: a request thread that can take a step of its handler takes
\* it (the calls inside the locked block all return), and a thread waiting
\* for hw_lock gets it if the lock is free again and again (fair lock).
\* The process is followed while no signal ends it.
HandlerStep(t) ==
    \/ ReadEntry(t)
    \/ Attempt(t)
    \/ Store(t)
    \/ Release(t)
    \/ Respond(t)
    \/ Beep(t)
    \/ Return(t)
FairRoutes == {"read_current", "measure_shape"}
NextFair ==
    \E t \in Callers :
        \/ Request(t) /\ req'[t] \in FairRoutes
        \/ Acquire(t)
        \/ HandlerStep(t)
InitFair ==
    /\ Init
    /\ buzzer = "open"
    /\ scene \in {DriverExc, 10004}
SpecFair ==
    /\ InitFair
    /\ [][NextFair]_vars
    /\ \A t \in Callers : WF_vars(HandlerStep(t)) /\ SF_vars(Acquire(t))

\* app.py serving the single-shot routes only, in front of the wide scenes
InitRead == Init
NextRead ==
    \/ SceneWide
    \/ AppNext /\ \A t \in Callers : req'[t] \notin BatchRoutes
SpecRead == InitRead /\ [][NextRead]_vars

InitStats ==
    StatInit /\ AppIdle /\ MeasIdle /\ MenuIdle /\ AutoIdle /\ TempIdle
NextStats == StatNext
SpecStats == InitStats /\ [][NextStats]_vars

InitSpeed ==
    TempInit /\ AppIdle /\ MeasIdle /\ MenuIdle /\ AutoIdle /\ StatIdle
NextSpeed == TempNext
SpecSpeed == InitSpeed /\ [][NextSpeed]_vars

(***************************************************************************)
(* Claims about app.py, checked under Spec.                                *)
(***************************************************************************)

\* caller t is between the first and the last read_distance_once call of the
\* sequence of its request
InSequence(t) ==
    /\ nreads[t] >= 1
    /\ \/ pc[t] = "attempt"
       \/ /\ req[t] \in BatchRoutes
          /\ \/ pc[t] = "read"
             \/ pc[t] = "store" /\ i[t] + 1 < BatchSize(req[t])

\* a step of read_distance_once made by caller u
ReadStep(u) == ReadEntry(u) \/ Attempt(u)

\* C1: measurement sequences of concurrent requests never interleave: while a
\* caller is between the first and the last read_distance_once call of its
\* sequence (single shot or whole batch), no other caller takes a step of
\* read_distance_once.
C1_NoInterleaving ==
    [][\A t \in Callers : \A u \in Callers \ {t} :
          InSequence(t) => ~ReadStep(u)]_vars

\* a batch is under way, past its first sample, while another request waits
\* for the lock
C1_Witness ==
    \E t \in Callers : \E u \in Callers \ {t} :
        /\ InSequence(t)
        /\ req[t] \in BatchRoutes
        /\ i[t] >= 1
        /\ hw_lock = t
        /\ pc[u] = "acquire"

\* C4: every batch calls read_distance_once exactly N times, each call fills
\* exactly one slot of the readings list, the newest at the end, and
\* missing + valid_count = N, so that the missing fraction lies in [0, 1].
C4_BatchShape ==
    \A t \in Callers :
        req[t] \in BatchRoutes =>
            LET n == BatchSize(req[t])
                len == Len(readings[t])
            IN  /\ pc[t] \in {"read", "release"} =>
                      /\ len = nreads[t]
                      /\ len > 0 => readings[t][len] = d[t]
                /\ pc[t] \in {"attempt", "store"} => len = nreads[t] - 1
                /\ pc[t] \in {"read", "attempt", "store"} => nreads[t] <= n
                /\ pc[t] \in {"release", "respond", "return"} =>
                      /\ nreads[t] = n
                      /\ len = n
                      /\ missing[t] + Len(ValidOf(readings[t])) = n
                /\ pc[t] = "return" =>
                      /\ resp[t].readings = readings[t]
                      /\ resp[t].valid_count + missing[t] = n
                      /\ resp[t].missing_fraction >= 0
                      /\ resp[t].missing_fraction <= 1000
                      /\ resp[t].missing_fraction =
                             RoundDiv(1000 * (n - resp[t].valid_count), n)

\* a batch is answered with some samples missing and some valid
C4_Witness ==
    \E t \in Callers :
        /\ req[t] \in BatchRoutes
        /\ pc[t] = "return"
        /\ missing[t] >= 1
        /\ resp[t].valid_count >= 1

\* C8 as stated: a failed read is never retried, every sample makes at most
\* one sensor read attempt.
C8_NeverRetried ==
    \A t \in Callers : attempt[t] <= 1


\* C8, amended: a failed read attempt is retried within the sample, up to
\* DISTANCE_RETRIES attempts in all; the sample surfaces as None only after
\* the DISTANCE_RETRIES-th attempt (or with no attempt when the sensor could
\* not be re-initialised), and every None sample is counted in missing.
C8_BoundedRetries ==
    \A t \in Callers :
        /\ attempt[t] <= DISTANCE_RETRIES
        /\ pc[t] = "attempt" => attempt[t] < DISTANCE_RETRIES
        /\ pc[t] = "store" =>
              /\ d[t] = NoneVal => attempt[t] \in {0, DISTANCE_RETRIES}
              /\ d[t] # NoneVal => attempt[t] >= 1 /\ ValidReading(10 * d[t])
        /\ pc[t] \in {"read", "release"} /\ req[t] \in BatchRoutes =>
              missing[t] = NoneCount(readings[t])

\* a sample of a batch came back None after DISTANCE_RETRIES attempts and
\* was counted as missing
C8_Witness ==
    \E t \in Callers :
        /\ req[t] \in BatchRoutes
        /\ pc[t] \in {"read", "release"}
        /\ attempt[t] = DISTANCE_RETRIES
        /\ d[t] = NoneVal
        /\ missing[t] >= 1

(***************************************************************************)
(* Claims about the polling routines, checked under SpecMeasure.           *)
(***************************************************************************)

\* the polling deadline of a routine, in ticks; diagnostic.py sets none, and
\* is measured against the longest deadline of the other scripts
PollingDeadline(r) == IF r = "autorun" THEN TIMEOUT_AUTO ELSE TIMEOUT_MENU

\* the second loop was entered with the echo line high
SawRise == tFall # Unset /\ riseAt <= tFall

\* C2: every single-measurement routine (menu.py, autorun.py, diagnostic.py)
\* has left its polling loops at most two polling deadlines after polling
\* began, whatever the echo line does.
C2_PollingBounded ==
    mpc \in {"rise", "fall"} =>
        now - t0 <= 2 * (PollingDeadline(routine) + 1)

\* C3: when a polling loop is left because the deadline elapsed (no rising
\* edge, or no falling edge after it), the routine returns None and raises
\* no exception.
C3_DeadlineGivesNone ==
    (mpc = "done" /\ timedOut) => (result = NoneVal /\ ~raised)

\* C6: the wait for the falling edge has a deadline of its own, counted from
\* the entry to the second loop: an echo whose rising edge was seen, however
\* late in the first loop, and which falls within one deadline of that entry,
\* is measured and not cut off by the deadline.
C6_FallHasOwnDeadline ==
    /\ mpc \in {"convert", "done"}
    /\ routine \in {"menu", "autorun"}
    /\ SawRise
    /\ fallAt <= tFall + PollingDeadline(routine)
    => ~timedOut

\* C7: measure_distance_once of menu.py never returns a number outside the
\* plausible window (0.5 cm to 400 cm): such a distance is returned as None.
C7_PlausibleOrNone ==
    (routine = "menu" /\ mpc = "done" /\ result # NoneVal) =>
        (10 * result >= MIN_VALID_MILLI /\ 10 * result <= MAX_VALID_MILLI)

(***************************************************************************)
(* Claims about menu.py, checked under SpecMenu.                           *)
(***************************************************************************)

\* C5: a sample without echo never contributes a numeric value to the mean:
\* the mean of a shape or material test is the mean of the samples that
\* returned a distance.
C5_MeanOverValidOnly ==
    (mstep = "result" /\ choice \in {"2", "3"} /\ ValidOf(mraw) # <<>>) =>
        mres.mean = MenuMean(ValidOf(mraw))

\* C9: however the process ends (quit, SIGINT, SIGTERM, an error in a test)
\* the chip handle has been closed before.
C9_ReleasedAtExit ==
    mstep = "exited" => openHandles = {}

\* C10 as stated: after a first failure safe_claim_output closes, reopens
\* and re-claims exactly once, and it never terminates the process.
C10_RetryNeverTerminates ==
    (IsOutput(callPin) /\ outcome \in {"reclaimed", "gave_up", "exit"}) =>
        (tries = 2 /\ exitCode # 1)

\* C11: once the claim of the trigger or of the echo pin has failed, a
\* measurement of menu.py returns None and raises nothing to its caller.
C11_UnavailableGivesNone ==
    (~claimOk[TRIG] \/ ~claimOk[ECHO]) => mstep # "raised"

OneClaimHeld ==
    /\ sensorClaims <= 1
    /\ distance_sensor = "None" => sensorClaims = 0
    /\ Cardinality(openHandles) <= 1
    /\ \A p \in {TRIG, ECHO} : claimedOn[p] \in openHandles \cup {0}
    /\ mstep = "retry_claim" =>
          (h \notin openHandles /\ claimedOn[callPin] = 0)

\* a step in which read_distance_once of caller t calls the constructor of
\* the distance sensor: the call fails and the read returns at once, or a
\* new object holds the pins
ConstructsSensor(t) ==
    /\ pc[t] = "read"
    /\ pc'[t] = "store" \/ sensorClaims' > sensorClaims

\* C13: the process holds at most one claim on the trigger/echo pins at any
\* moment, and a new sensor object or a re-claim is made only when no
\* earlier claim is held: distance_sensor is None and its object closed
\* (app.py), or the earlier chip session closed (menu.py).
C13_OneClaimPerPin ==
    /\ []OneClaimHeld
    /\ [][\A t \in Callers : ConstructsSensor(t) => sensorClaims = 0]_vars

\* cleanup_all closed the sensor and a request created it anew
C13_Witness ==
    /\ proc = "closing"
    /\ distance_sensor = "open"
    /\ sensorClaims = 1

(***************************************************************************)
(* Further claims about app.py, checked under Spec.                        *)
(***************************************************************************)

\* C14: while a caller holds hw_lock for a measurement sequence, no other
\* thread is inside a beep() that drives the buzzer pin.
C14_NoBeepDuringSequence ==
    \A t \in Callers : \A u \in Callers \ {t} :
        (hw_lock = u /\ InSequence(u)) => ~DrivesBuzzer(t)

(***************************************************************************)
(* Claims about autorun.py, checked under SpecAutorun.                     *)
(***************************************************************************)

\* C15: while a test runs in the main thread of autorun.py, no live_menu
\* thread is inside an ultrasonic_distance call.
C15_NoMenuPulseDuringTest ==
    InTest => \A k \in MenuThreads : lm[k] # "measuring"

(***************************************************************************)
(* Claims about the reduction of a batch, checked under SpecStats.         *)
(***************************************************************************)

\* a reduction has been applied to the batch
Reduced == sres # NoStat

\* the verdicts of app.py that call the material absorbing
AbsorbingVerdicts ==
    {"Likely Absorbing / Transparent",
     "No echoes - likely highly absorbing/transparent"}

\* C16: for a batch of app.py in which every sample is None, the mean and
\* the standard deviation are None, missing_fraction is 1.0, the material
\* verdict is an absorbing one (the shape label is "No reliable echoes"),
\* and no statistics function is reached with the empty list.
C16_AllNoneBatch ==
    (/\ Reduced
     /\ svariant \in {"app_shape", "app_material"}
     /\ ValidOf(sbatch) = <<>>)
    => /\ sres.mean = NoneVal
       /\ sres.std = NoneVal
       /\ sres.missing_fraction = 1000
       /\ sres.label # StatisticsError.label
       /\ svariant = "app_material" => sres.label \in AbsorbingVerdicts
       /\ svariant = "app_shape" => sres.label = "No reliable echoes"

C16_Witness ==
    /\ Reduced
    /\ svariant = "app_material"
    /\ NoneCount(sbatch) = MATERIAL_BATCH
    /\ sres.missing_fraction = 1000
    /\ sres.label = "No echoes - likely highly absorbing/transparent"

\* C17 as stated: a material batch with 8 of 20 samples missing
\* (missing_fraction 0.4) is classified absorbing whatever the standard
\* deviation of its 12 valid samples.
C17_BoundaryIsAbsorbing ==
    (/\ Reduced
     /\ svariant = "app_material"
     /\ sres.missing_fraction = MISSING_LIMIT)
    => sres.label = "Likely Absorbing / Transparent"

\* C17: a material batch whose missing fraction is exactly 0.4 (8 of 20)
\* does not meet the missing-fraction condition: it is classified absorbing
\* iff the standard deviation of its valid samples exceeds 1.5 cm. The
\* missing fraction alone gives the absorbing verdict from 9 of 20 on.
C17_BoundaryDecidedByStd ==
    (Reduced /\ svariant = "app_material" /\ ValidOf(sbatch) # <<>>)
    => /\ sres.missing_fraction = MISSING_LIMIT
          => (sres.label = "Likely Absorbing / Transparent"
              <=> sres.std > MATERIAL_ABSORB_MILLI)
       /\ 20 * NoneCount(sbatch) > 8 * MATERIAL_BATCH
          => sres.label = "Likely Absorbing / Transparent"

C17_Witness ==
    /\ Reduced
    /\ svariant = "app_material"
    /\ NoneCount(sbatch) = 8
    /\ Len(sbatch) = 20
    /\ sres.missing_fraction = MISSING_LIMIT
    /\ sres.std <= MATERIAL_MODERATE_MILLI
    /\ sres.label = "Reflective / Good for Ultrasonic"

\* C18: for a batch with at least one valid sample the material verdict is
\* exactly one of three: absorbing iff missing_fraction > 0.4 or std > 1.5;
\* otherwise possibly absorbing iff std > 1.0; otherwise reflective.
C18_MaterialTiers ==
    (Reduced /\ svariant = "app_material" /\ ValidOf(sbatch) # <<>>)
    => LET absorb == \/ sres.missing_fraction > MISSING_LIMIT
                     \/ sres.std > MATERIAL_ABSORB_MILLI
           moderate == sres.std > MATERIAL_MODERATE_MILLI
       IN  /\ sres.label \in {"Likely Absorbing / Transparent",
                              "Possibly Absorbing / Irregular",
                              "Reflective / Good for Ultrasonic"}
           /\ sres.label = "Likely Absorbing / Transparent" <=> absorb
           /\ sres.label = "Possibly Absorbing / Irregular"
              <=> (~absorb /\ moderate)
           /\ sres.label = "Reflective / Good for Ultrasonic"
              <=> (~absorb /\ ~moderate)

C18_Witness ==
    /\ Reduced
    /\ svariant = "app_material"
    /\ sres.missing_fraction <= MISSING_LIMIT
    /\ sres.std > MATERIAL_MODERATE_MILLI
    /\ sres.std <= MATERIAL_ABSORB_MILLI
    /\ sres.label = "Possibly Absorbing / Irregular"

\* the position of a shape label in the order flat, curved, irregular
ShapeRank(label) ==
    IF label \in {"Flat Surface", "Flat"} THEN 0
    ELSE IF label \in {"Slightly Curved", "Curved"} THEN 1
    ELSE 2

\* C19: the shape label of a standard deviation is the flat one iff
\* std < low, the curved one iff low <= std < high, the irregular one iff
\* std >= high, with low 0.3 and high 1.0 in app.py and low 1.0 and
\* high 3.0 in menu.py; no smaller standard deviation gets a later label.
C19_ShapeTiers ==
    /\ (Reduced /\ svariant = "app_shape" /\ ValidOf(sbatch) # <<>>)
       => /\ sres.label \in {"Flat Surface", "Slightly Curved",
                             "Irregular Surface"}
          /\ sres.label = "Flat Surface" <=> sres.std < SHAPE_FLAT_MILLI
          /\ sres.label = "Slightly Curved"
             <=> (SHAPE_FLAT_MILLI <= sres.std
                  /\ sres.std < SHAPE_CURVED_MILLI)
          /\ sres.label = "Irregular Surface"
             <=> sres.std >= SHAPE_CURVED_MILLI
          /\ \A s \in 0..sres.std :
                ShapeRank(ShapeLabel(s)) <= ShapeRank(sres.label)
    /\ (Reduced /\ svariant = "menu_shape")
       => /\ sres.label \in {"Flat", "Curved", "Irregular"}
          /\ sres.label = "Flat" <=> sres.std < MENU_FLAT_MILLI
          /\ sres.label = "Curved"
             <=> (MENU_FLAT_MILLI <= sres.std
                  /\ sres.std < MENU_CURVED_MILLI)
          /\ sres.label = "Irregular" <=> sres.std >= MENU_CURVED_MILLI
          /\ \A s \in 0..sres.std :
                ShapeRank(classify_shape(s)) <= ShapeRank(sres.label)

C19_Witness ==
    /\ Reduced
    /\ svariant = "app_shape"
    /\ sres.std = SHAPE_FLAT_MILLI
    /\ sres.label = "Slightly Curved"

\* C20 as stated: every reduction of a batch, in app.py, menu.py and
\* autorun.py, yields the population standard deviation of the samples
\* (here for batches in which every sample is valid).
C20_PopulationStdEverywhere ==
    (Reduced /\ NoneCount(sbatch) = 0)
    => sres.std = pstdev(sbatch)


\* the valid samples of the batch are all the same distance
AllAlike(valid) == \A j \in 1..Len(valid) : valid[j] = valid[1]

\* C21: a shape batch of app.py whose valid samples are all the same
\* distance d has mean d, standard deviation 0.0 and the flat label, also
\* when only one sample is valid; with no sample missing its
\* missing_fraction is 0.
C21_ConstantBatchIsFlat ==
    (/\ Reduced
     /\ svariant = "app_shape"
     /\ ValidOf(sbatch) # <<>>
     /\ AllAlike(ValidOf(sbatch)))
    => /\ sres.mean = 10 * ValidOf(sbatch)[1]
       /\ sres.std = 0
       /\ sres.label = "Flat Surface"
       /\ NoneCount(sbatch) = 0 => sres.missing_fraction = 0

C21_Witness ==
    /\ Reduced
    /\ svariant = "app_shape"
    /\ Len(ValidOf(sbatch)) = 1
    /\ ValidOf(sbatch)[1] > 1000
    /\ sres.std = 0
    /\ sres.label = "Flat Surface"


(***************************************************************************)
(* Further claims about app.py, checked under Spec.                        *)
(***************************************************************************)

\* the JSON body carries an accuracy verdict
HasAccuracy(body) == "accuracy" \in DOMAIN body

\* C23: a response of app.py for a measurement whose distance is None
\* carries the accuracy verdict Poor with score 0.
C23_NoEchoIsPoor ==
    \A t \in Callers :
        (/\ pc[t] \in {"beep", "return"}
         /\ req[t] \in {"read_current", "measure_distance"}
         /\ resp[t].distance_val = NoneVal)
        => /\ HasAccuracy(resp[t])
           /\ resp[t].accuracy = [verdict |-> "Poor", score |-> 0]

(***************************************************************************)
(* Claims about read_distance_once, checked under SpecRead.                *)
(***************************************************************************)

\* the driver yields a distance within [0.5, 400] cm right now
InRangeNow ==
    /\ distance_sensor = "open"
    /\ scene # DriverExc
    /\ scene >= 500
    /\ scene <= 400000

\* C24: read_distance_once makes at most DISTANCE_RETRIES read attempts;
\* an attempt that yields a distance within [0.5, 400] cm ends the call at
\* once with that distance, rounded; an attempt that is out of range or
\* raises is followed by the next one, and by the return of None when it
\* was the DISTANCE_RETRIES-th; no attempt ends the call any other way.
C24_ReadDistanceOnce ==
    [][\A t \in Callers :
          (pc[t] = "attempt" /\ attempt'[t] = attempt[t] + 1)
          => /\ attempt'[t] <= DISTANCE_RETRIES
             /\ InRangeNow
                => (pc'[t] = "store" /\ d'[t] = Round2(scene))
             /\ (~InRangeNow /\ attempt'[t] < DISTANCE_RETRIES)
                => (pc'[t] = "attempt" /\ d'[t] = d[t])
             /\ (~InRangeNow /\ attempt'[t] = DISTANCE_RETRIES)
                => (pc'[t] = "store" /\ d'[t] = NoneVal)]_vars

\* a call returned the reading 0.5 cm on its third attempt
C24_Witness ==
    \E t \in Callers :
        /\ pc[t] = "store"
        /\ attempt[t] = 3
        /\ d[t] = 50

(***************************************************************************)
(* Claims about the scheduling of app.py, checked under SpecFair.          *)
(***************************************************************************)

\* C25: while the process lives, every request that waits for hw_lock gets
\* it, and every holder of hw_lock gives it back, whatever its samples
\* yielded.
C25_LockAcquiredAndReleased ==
    \A t \in Callers :
        /\ (pc[t] = "acquire") ~> (hw_lock = t)
        /\ (hw_lock = t) ~> (hw_lock # t)

\* a holder leaves the locked block after a sample without echo while
\* another request waits for the lock
C25_Witness ==
    \E t, u \in Callers :
        /\ t # u
        /\ pc[t] = "acquire"
        /\ hw_lock = u
        /\ pc[u] = "release"
        /\ d[u] = NoneVal

(***************************************************************************)
(* Claims about the speed of sound, checked under SpecSpeed.               *)
(***************************************************************************)

\* C22: a call made without an ambient temperature works with and reports
\* a defined speed of sound, and two such calls work with the same one.
C22_FixedFallbackSpeed ==
    (sos # Unset /\ ~tempKnown)
    => /\ sos \notin {NoneVal, DriverExc}
       /\ (sosPrev # Unset /\ ~tempKnownPrev) => sos = sosPrev

(***************************************************************************)
(* Claims about the button and the beeps of a test.                        *)
(***************************************************************************)

\* the menu is inside a test whose sampling loop has been entered
Sampling == mstep \in {"sample", "raised", "stats", "result"}

\* C26: in menu.py a test takes a sample only after wait_for_button_press
\* has read the button low on two consecutive reads.
C26_SampleAfterDebouncedPress ==
    (Sampling \/ Len(mraw) > 0) => lows >= 2

\* a shape test has taken all its samples after a debounced press
C26_Witness ==
    /\ choice = "2"
    /\ mstep = "stats"
    /\ Len(mraw) = READINGS_COUNT
    /\ lows = 2

\* thread t serves a shape or material test and is past the lock entry
InBatch(t) ==
    /\ req[t] \in BatchRoutes
    /\ pc[t] \notin {"idle", "acquire"}

C27_WitnessMenu ==
    /\ choice = "3"
    /\ mstep = "result"
    /\ mbeeps = 3
    /\ Len(mraw) = READINGS_COUNT

(***************************************************************************)
(* Claims about the shutdown of app.py and the pins of menu.py.            *)
(***************************************************************************)

\* C28: from the moment cleanup_all has closed the distance sensor until
\* the process has exited, the sensor stays released: no request thread
\* creates it again.
C28_SensorStaysReleased ==
    proc \in {"closing", "exited"} => distance_sensor = "None"

\* C29: once the initialisation of menu.py has claimed TRIG, ECHO, BUZZER
\* and BUTTON, every pin whose claim reported success is claimed on the
\* handle h the script works with.
C29_ClaimsSurviveReopen ==
    InMenuLoop => \A p \in Pins : claimOk[p] => claimedOn[p] = h

(***************************************************************************)
(* Claims about the threads of autorun.py, checked under SpecAutorun.      *)
(***************************************************************************)

\* the live_menu threads that have been started and have not returned
LiveThreads == {k \in MenuThreads : lm[k] \notin {"unborn", "ended"}}

\* C30: in autorun.py at most one live_menu thread is running at any time.
C30_OneMenuThread == Cardinality(LiveThreads) <= 1

=============================================================================
